---- MODULE Spec2Model ----
(***************************************************************************)
(* Model of scripts/fix_encoding.py: the mojibake reversal performed by    *)
(* fix_double_encoding on one file, and the batch loop of main.            *)
(*                                                                         *)
(* Text is a sequence of Unicode code points (naturals), file content and  *)
(* the reversal buffer are sequences of bytes (0..255).  The codecs        *)
(* (cp1252, latin-1, utf-8) are modelled by what CPython's codecs do,      *)
(* including their failures, which the script uses as branch conditions.   *)
(***************************************************************************)
EXTENDS Integers, Sequences, FiniteSets, TLC

(***************************************************************************)
(* Bounds of the model.                                                    *)
(***************************************************************************)
\* longest text (in code points) drawn over Chars for a file's content
MaxLen == 3
\* longest original text T (in code points) that is corrupted into mojibake
MaxOrig == 2
\* longest list files_to_process in the batch specification
MaxFiles == 3

(***************************************************************************)
(* Codec results: a value or the exception the codec raised.               *)
(***************************************************************************)
Ok(v) == [ok |-> TRUE, val |-> v]

Err == [ok |-> FALSE, val |-> <<>>]

(***************************************************************************)
(* cp1252: CPython's decoding table for the bytes 0x80..0x9F.  The bytes   *)
(* 0x81, 0x8D, 0x8F, 0x90 and 0x9D are undefined (value 0 here).  Every    *)
(* other byte decodes to the code point of the same value.                 *)
(***************************************************************************)
Cp1252High ==
  <<8364,    0, 8218,  402, 8222, 8230, 8224, 8225,
     710, 8240,  352, 8249,  338,    0,  381,    0,
       0, 8216, 8217, 8220, 8221, 8226, 8211, 8212,
     732, 8482,  353, 8250,  339,    0,  382,  376>>

\* bytes(b).decode('cp1252') for one byte
Cp1252DecodeByte(b) ==
  IF b < 128 \/ b >= 160 THEN Ok(b)
  ELSE IF Cp1252High[b - 127] = 0 THEN Err
  ELSE Ok(Cp1252High[b - 127])

\* char.encode('cp1252'): the byte whose cp1252 decoding is c, else
\* UnicodeEncodeError
Cp1252Encode(c) ==
  IF c < 128 \/ (c >= 160 /\ c <= 255) THEN Ok(<<c>>)
  ELSE IF c # 0 /\ \E k \in 1..32 : Cp1252High[k] = c
       THEN Ok(<<127 + (CHOOSE k \in 1..32 : Cp1252High[k] = c)>>)
       ELSE Err

\* a latin-1 encoder that truncates the code point to its low byte
Latin1EncodeTruncating(c) == Ok(<<c % 256>>)

\* char.encode('latin-1'): one byte equal to the code point, up to U+00FF
Latin1Encode(c) == IF c <= 255 THEN Ok(<<c>>) ELSE Err

IsSurrogate(c) == c >= 55296 /\ c <= 57343

\* char.encode('utf-8'), strict: surrogates raise UnicodeEncodeError
Utf8EncodeChar(c) ==
  IF c < 128 THEN Ok(<<c>>)
  ELSE IF c < 2048 THEN Ok(<<192 + (c \div 64), 128 + (c % 64)>>)
  ELSE IF IsSurrogate(c) THEN Err
  ELSE IF c < 65536
       THEN Ok(<<224 + (c \div 4096), 128 + ((c \div 64) % 64), 128 + (c % 64)>>)
       ELSE Ok(<<240 + (c \div 262144), 128 + ((c \div 4096) % 64),
                 128 + ((c \div 64) % 64), 128 + (c % 64)>>)

IsCont(b) == b >= 128 /\ b <= 191

\* length of the UTF-8 sequence a lead byte announces, 0 for a byte that
\* cannot start a sequence (continuation bytes, 0xC0, 0xC1, 0xF5..0xFF)
Utf8SeqLen(b) ==
  IF b < 128 THEN 1
  ELSE IF b >= 194 /\ b <= 223 THEN 2
  ELSE IF b >= 224 /\ b <= 239 THEN 3
  ELSE IF b >= 240 /\ b <= 244 THEN 4
  ELSE 0

\* the strict decoder's constraint on the second byte: no overlong forms,
\* no surrogates, nothing above U+10FFFF
Utf8SecondOk(lead, b) ==
  IF lead = 224 THEN b >= 160 /\ b <= 191
  ELSE IF lead = 237 THEN b >= 128 /\ b <= 159
  ELSE IF lead = 240 THEN b >= 144 /\ b <= 191
  ELSE IF lead = 244 THEN b >= 128 /\ b <= 143
  ELSE IsCont(b)

\* the code point of one well-formed sequence s
Utf8CodePoint(s) ==
  IF Len(s) = 1 THEN s[1]
  ELSE IF Len(s) = 2 THEN (s[1] - 192) * 64 + (s[2] - 128)
  ELSE IF Len(s) = 3 THEN (s[1] - 224) * 4096 + (s[2] - 128) * 64 + (s[3] - 128)
  ELSE (s[1] - 240) * 262144 + (s[2] - 128) * 4096 + (s[3] - 128) * 64 + (s[4] - 128)

RECURSIVE Utf8DecodeFrom(_, _, _)
Utf8DecodeFrom(bs, i, acc) ==
  IF i > Len(bs) THEN Ok(acc)
  ELSE LET n == Utf8SeqLen(bs[i]) IN
       IF n = 0 \/ i + n - 1 > Len(bs) THEN Err
       ELSE IF n >= 2 /\ ~Utf8SecondOk(bs[i], bs[i + 1]) THEN Err
       ELSE IF \E k \in (i + 2)..(i + n - 1) : ~IsCont(bs[k]) THEN Err
       ELSE Utf8DecodeFrom(bs, i + n, Append(acc, Utf8CodePoint(SubSeq(bs, i, i + n - 1))))

\* the buffer decoded with the single-byte codec instead of utf-8
Utf8DecodeAsLatin1(bs) == Ok(bs)

\* bytes.decode('utf-8'), strict: the text, or UnicodeDecodeError
Utf8Decode(bs) == Utf8DecodeFrom(bs, 1, <<>>)

RECURSIVE Utf8Encode(_)
\* str.encode('utf-8') of a text without surrogates
Utf8Encode(text) ==
  IF text = <<>> THEN <<>>
  ELSE Utf8EncodeChar(Head(text)).val \o Utf8Encode(Tail(text))

RECURSIVE UniversalNewlines(_)
\* text mode with newline=None on input: "\r\n" and a lone "\r" become "\n"
UniversalNewlines(text) ==
  IF text = <<>> THEN <<>>
  ELSE IF Head(text) = 13
       THEN IF Len(text) >= 2 /\ text[2] = 10
            THEN <<10>> \o UniversalNewlines(Tail(Tail(text)))
            ELSE <<10>> \o UniversalNewlines(Tail(text))
       ELSE <<Head(text)>> \o UniversalNewlines(Tail(text))

\* the file opened with newline='\r\n'
linesepCrLf == <<13, 10>>

\* os.linesep of the POSIX platform the script's shebang targets
linesep == <<10>>

RECURSIVE WriteNewlines(_)
\* text mode with newline=None on output: "\n" becomes os.linesep
WriteNewlines(text) ==
  IF text = <<>> THEN <<>>
  ELSE (IF Head(text) = 10 THEN linesep ELSE <<Head(text)>>)
       \o WriteNewlines(Tail(text))

\* what open(file_path, 'r', encoding='utf-8').read() returns for content bs
ReadText(bs) ==
  LET d == Utf8Decode(bs) IN
  IF d.ok THEN Ok(UniversalNewlines(d.val)) ELSE Err

\* the bytes f.write(text) puts into a file opened with encoding='utf-8'
WriteBytes(text) == Utf8Encode(WriteNewlines(text))

(***************************************************************************)
(* The inputs the model draws from.                                        *)
(***************************************************************************)
\* all sequences over S of length at most n
Texts(S, n) == UNION {[1..k -> S] : k \in 0..n}

\* code points of file texts: CR, "A", U+0081 (latin-1 only), U+00A9,
\* U+00C0 (byte 0xC0, never a lead byte), U+00C3, U+00E2, U+2019 (cp1252
\* 0x92), U+20AC (cp1252 0x80), U+4E2D (neither cp1252 nor latin-1)
Chars == {13, 65, 129, 169, 192, 195, 226, 8217, 8364, 20013}

\* code points of original texts: LF, "A", U+00C1 (UTF-8 C3 81), U+00E9
\* (C3 A9), U+2019 (E2 80 99), U+4E2D (E4 B8 AD), U+1F600 (F0 9F 98 80)
OrigChars == {10, 65, 193, 233, 8217, 20013, 128512}

\* the corruption the script undoes: each byte of the UTF-8 form of the
\* text decoded as cp1252, the five undefined bytes as latin-1
CorruptByte(b) == IF Cp1252DecodeByte(b).ok THEN Cp1252DecodeByte(b).val ELSE b

Corrupt(text) ==
  LET bs == Utf8Encode(text) IN [k \in 1..Len(bs) |-> CorruptByte(bs[k])]

\* file contents that are not UTF-8: a lone continuation byte, a truncated
\* sequence, an encoded surrogate, an overlong form
InvalidContents == {<<128>>, <<65, 195>>, <<237, 160, 128>>, <<192, 128>>}

Contents ==
  {Utf8Encode(t) : t \in Texts(Chars, MaxLen)}
  \cup {Utf8Encode(Corrupt(T)) : T \in Texts(OrigChars, MaxOrig)}
  \cup InvalidContents

File(mode, bytes) == [mode |-> mode, bytes |-> bytes]

\* a file as fix_double_encoding can find it
FileStates ==
  {File("missing", <<>>)}
  \cup {File("unreadable", <<65>>)}
  \cup {File(m, b) : m \in {"ok", "readonly"}, b \in Contents}

\* the files of the batch specification: "A"; mojibake of U+00E9; U+00E9
\* itself; bytes that are not UTF-8; a read-only file; a missing file
BatchFileStates ==
  { File("ok", <<65>>), File("ok", Utf8Encode(<<195, 169>>)),
    File("ok", Utf8Encode(<<233>>)), File("ok", <<128>>),
    File("readonly", <<65>>), File("missing", <<>>) }

\* the paths main collected
Paths == {"a.md", "b.md"}

(***************************************************************************)
(* State.                                                                  *)
(***************************************************************************)
VARIABLES
  fs,               \* path -> the file: its mode and its bytes
  files_to_process, \* main: the list of paths (line 77..97)
  idx,              \* main: position of the for loop (line 104)
  success_count,    \* main (line 101)
  fail_count,       \* main (line 102)
  console,          \* what was printed, in order: <<kind, path>>
  exit_status,      \* -1 while running, then the process's exit status
  pc,               \* position in main / fix_double_encoding
  file_path,        \* fix_double_encoding: its argument
  before,           \* the bytes of file_path when the call began
  mojibake_text,    \* line 28
  reversed_bytes,   \* line 32
  i,                \* position of the loop of line 33 in mojibake_text
  fixed_text,       \* line 48
  error,            \* the exception caught at line 62, "none" if none
  ret               \* the value the call returned

vars == <<fs, files_to_process, idx, success_count, fail_count, console,
          exit_status, pc, file_path, before, mojibake_text, reversed_bytes,
          i, fixed_text, error, ret>>

main_vars == <<files_to_process, idx, success_count, fail_count, console, exit_status>>

locals == <<mojibake_text, reversed_bytes, i, fixed_text>>

\* an exception as the handler of line 62 sees it: its type and the line
\* of the traceback
Raised(type, line) == [type |-> type, line |-> line]

NoError == Raised("none", 0)

\* main after line 102, before the first iteration
InitMain ==
  /\ idx = 1
  /\ success_count = 0
  /\ fail_count = 0
  /\ console = <<>>
  /\ exit_status = -1
  /\ pc = "main_for"
  /\ file_path = ""
  /\ before = <<>>
  /\ mojibake_text = <<>>
  /\ reversed_bytes = <<>>
  /\ i = 1
  /\ fixed_text = <<>>
  /\ error = NoError
  /\ ret = FALSE

\* one file, any content
Init ==
  /\ fs \in [{"a.md"} -> FileStates]
  /\ files_to_process = <<"a.md">>
  /\ InitMain

\* a batch: a non-empty list (line 95) of paths, possibly repeated
InitBatch ==
  /\ fs \in [Paths -> BatchFileStates]
  /\ files_to_process \in Texts(Paths, MaxFiles) \ {<<>>}
  /\ InitMain

(***************************************************************************)
(* fix_double_encoding                                                     *)
(***************************************************************************)
\* line 104/105: the for loop takes the next path and calls
Call ==
  /\ pc = "main_for"
  /\ idx <= Len(files_to_process)
  /\ file_path' = files_to_process[idx]
  /\ before' = fs[files_to_process[idx]].bytes
  /\ mojibake_text' = <<>>
  /\ reversed_bytes' = <<>>
  /\ i' = 1
  /\ fixed_text' = <<>>
  /\ error' = NoError
  /\ pc' = "read"
  /\ UNCHANGED <<fs, main_vars, ret>>

\* the exception open(file_path, 'r') raises, "none" if it opens
OpenReadError(f) ==
  IF f.mode = "missing" THEN "FileNotFoundError"
  ELSE IF f.mode = "unreadable" THEN "PermissionError"
  ELSE "none"

\* line 27: open raises
ReadOpenFails ==
  /\ pc = "read"
  /\ OpenReadError(fs[file_path]) # "none"
  /\ error' = Raised(OpenReadError(fs[file_path]), 27)
  /\ pc' = "except"
  /\ UNCHANGED <<fs, main_vars, file_path, before, locals, ret>>

\* line 28: the content is not UTF-8
ReadDecodeFails ==
  /\ pc = "read"
  /\ OpenReadError(fs[file_path]) = "none"
  /\ ~ReadText(fs[file_path].bytes).ok
  /\ error' = Raised("UnicodeDecodeError", 28)
  /\ pc' = "except"
  /\ UNCHANGED <<fs, main_vars, file_path, before, locals, ret>>

\* line 27..32
Read ==
  /\ pc = "read"
  /\ OpenReadError(fs[file_path]) = "none"
  /\ ReadText(fs[file_path].bytes).ok
  /\ mojibake_text' = ReadText(fs[file_path].bytes).val
  /\ reversed_bytes' = <<>>
  /\ i' = 1
  /\ pc' = "encode"
  /\ UNCHANGED <<fs, main_vars, file_path, before, fixed_text, error, ret>>

\* the chain without cp1252: latin-1, else utf-8
EncodeOneLatin1Only(char) ==
  IF Latin1Encode(char).ok THEN Latin1Encode(char)
  ELSE Utf8EncodeChar(char)

\* the chain without the latin-1 fallback: cp1252, else utf-8
EncodeOneNoLatin1(char) ==
  IF Cp1252Encode(char).ok THEN Cp1252Encode(char)
  ELSE Utf8EncodeChar(char)

\* the chain ending in errors='replace' ("?") instead of utf-8
EncodeOneReplace(char) ==
  IF Cp1252Encode(char).ok THEN Cp1252Encode(char)
  ELSE IF Latin1Encode(char).ok THEN Latin1Encode(char)
  ELSE Ok(<<63>>)

\* line 34..44 for one character: cp1252, else latin-1, else utf-8
EncodeOne(char) ==
  IF Cp1252Encode(char).ok THEN Cp1252Encode(char)
  ELSE IF Latin1Encode(char).ok THEN Latin1Encode(char)
  ELSE Utf8EncodeChar(char)

\* line 33..44: one iteration of the loop
EncodeChar ==
  /\ pc = "encode"
  /\ i <= Len(mojibake_text)
  /\ LET r == EncodeOne(mojibake_text[i]) IN
       IF r.ok
       THEN /\ reversed_bytes' = reversed_bytes \o r.val
            /\ i' = i + 1
            /\ UNCHANGED <<pc, error>>
       ELSE /\ error' = Raised("UnicodeEncodeError", 44)
            /\ pc' = "except"
            /\ UNCHANGED <<reversed_bytes, i>>
  /\ UNCHANGED <<fs, main_vars, file_path, before, mojibake_text, fixed_text, ret>>

\* line 48: the buffer decodes
DecodeOk ==
  /\ pc = "encode"
  /\ i > Len(mojibake_text)
  /\ Utf8Decode(reversed_bytes).ok
  /\ fixed_text' = Utf8Decode(reversed_bytes).val
  /\ pc' = "open_w"
  /\ UNCHANGED <<fs, main_vars, file_path, before, mojibake_text, reversed_bytes, i, error, ret>>

\* the decode failure reported as a failure
ReturnFalseOnDecodeError == FALSE

\* line 60
ReturnOnDecodeError == TRUE

\* line 48, 56..60: the buffer is not UTF-8
DecodeFails ==
  /\ pc = "encode"
  /\ i > Len(mojibake_text)
  /\ ~Utf8Decode(reversed_bytes).ok
  /\ console' = Append(console, <<"Info", file_path>>)
  /\ ret' = ReturnOnDecodeError
  /\ pc' = "return_60"
  /\ UNCHANGED <<fs, files_to_process, idx, success_count, fail_count, exit_status,
                 file_path, before, locals, error>>

\* line 51: open(file_path, 'w') raises, the file is not touched
WriteOpenFails ==
  /\ pc = "open_w"
  /\ fs[file_path].mode = "readonly"
  /\ error' = Raised("PermissionError", 51)
  /\ pc' = "except"
  /\ UNCHANGED <<fs, main_vars, file_path, before, locals, ret>>

\* line 51: open(file_path, 'w') truncates the file
WriteOpen ==
  /\ pc = "open_w"
  /\ fs[file_path].mode # "readonly"
  /\ fs' = [fs EXCEPT ![file_path].bytes = <<>>]
  /\ pc' = "write"
  /\ UNCHANGED <<main_vars, file_path, before, locals, error, ret>>

\* line 54
ReturnAfterWrite == TRUE

\* line 52..54: the text is written and the file closed
Write ==
  /\ pc = "write"
  /\ fs' = [fs EXCEPT ![file_path].bytes = WriteBytes(fixed_text)]
  /\ ret' = ReturnAfterWrite
  /\ pc' = "return_54"
  /\ UNCHANGED <<main_vars, file_path, before, locals, error>>

\* line 52: the write or the flush at close raises OSError (disk full, I/O
\* error) after k bytes reached the file
WriteFails ==
  /\ pc = "write"
  /\ \E k \in 0..(Len(WriteBytes(fixed_text)) - 1) :
       fs' = [fs EXCEPT ![file_path].bytes = SubSeq(WriteBytes(fixed_text), 1, k)]
  /\ error' = Raised("OSError", 52)
  /\ pc' = "except"
  /\ UNCHANGED <<main_vars, file_path, before, locals, ret>>

\* a handler that reports and re-raises: the exception leaves main and the
\* interpreter exits with status 1
ExceptAborts ==
  /\ pc = "except"
  /\ console' = Append(console, <<"Error", file_path>>)
  /\ exit_status' = 1
  /\ pc' = "done"
  /\ UNCHANGED <<fs, files_to_process, idx, success_count, fail_count,
                 file_path, before, locals, error, ret>>

\* line 66
ReturnOnException == FALSE

\* line 62..66
Except ==
  /\ pc = "except"
  /\ console' = Append(console, <<"Error", file_path>>)
  /\ ret' = ReturnOnException
  /\ pc' = "return_66"
  /\ UNCHANGED <<fs, files_to_process, idx, success_count, fail_count, exit_status,
                 file_path, before, locals, error>>

(***************************************************************************)
(* main                                                                    *)
(***************************************************************************)
Returned == pc \in {"return_54", "return_60", "return_66"}

\* line 105..107
CountSuccess ==
  /\ Returned
  /\ ret
  /\ console' = Append(console, <<"Fixed", file_path>>)
  /\ success_count' = success_count + 1
  /\ idx' = idx + 1
  /\ pc' = "main_for"
  /\ UNCHANGED <<fs, files_to_process, fail_count, exit_status, file_path, before,
                 locals, error, ret>>

\* line 105, 108..110
CountFailure ==
  /\ Returned
  /\ ~ret
  /\ console' = Append(console, <<"Failed", file_path>>)
  /\ fail_count' = fail_count + 1
  /\ idx' = idx + 1
  /\ pc' = "main_for"
  /\ UNCHANGED <<fs, files_to_process, success_count, exit_status, file_path, before,
                 locals, error, ret>>

\* main without line 114..115
ExitStatusZero(failed) == 0

\* line 114..115, and the exit status of a script that runs to its end
ExitStatus(failed) == IF failed > 0 THEN 1 ELSE 0

\* line 112..115
Finish ==
  /\ pc = "main_for"
  /\ idx > Len(files_to_process)
  /\ exit_status' = ExitStatus(fail_count)
  /\ pc' = "done"
  /\ UNCHANGED <<fs, files_to_process, idx, success_count, fail_count, console,
                 file_path, before, locals, error, ret>>

Next ==
  \/ Call
  \/ ReadOpenFails
  \/ ReadDecodeFails
  \/ Read
  \/ EncodeChar
  \/ DecodeOk
  \/ DecodeFails
  \/ WriteOpenFails
  \/ WriteOpen
  \/ Write
  \/ WriteFails
  \/ Except
  \/ CountSuccess
  \/ CountFailure
  \/ Finish

Spec == Init /\ [][Next]_vars

SpecBatch == InitBatch /\ [][Next]_vars

\* the interpreter keeps running the script until it exits
FairBatch == InitBatch /\ [][Next]_vars /\ WF_vars(Next)

TypeOK ==
  /\ pc \in {"main_for", "read", "encode", "open_w", "write", "except",
             "return_54", "return_60", "return_66", "done"}
  /\ idx \in 1..(Len(files_to_process) + 1)
  /\ success_count + fail_count = idx - 1
  /\ exit_status \in {-1, 0, 1}
  /\ ret \in BOOLEAN
  /\ \A k \in 1..Len(reversed_bytes) : reversed_bytes[k] \in 0..255
  /\ \A p \in DOMAIN fs : \A k \in 1..Len(fs[p].bytes) : fs[p].bytes[k] \in 0..255
  /\ \A k \in 1..Len(mojibake_text) : ~IsSurrogate(mojibake_text[k])

(***************************************************************************)
(* Vocabulary of the properties.                                           *)
(***************************************************************************)
\* the call reached the decode of line 48
DecodeTried ==
  \/ pc \in {"open_w", "write", "return_54", "return_60"}
  \/ pc \in {"except", "return_66"} /\ error.line >= 51

\* the decode of line 48 succeeded: the outcome Repaired(fixed_text)
Repaired == DecodeTried /\ pc # "return_60"

\* the outcome Unchanged
Unchanged == pc = "return_60"

\* the bytes 0x80..0x9F that Windows-1252 maps to c
Cp1252HighBytes(c) == {b \in 128..159 : Cp1252DecodeByte(b) = Ok(c)}

\* c has a Windows-1252 byte
HasCp1252(c) == c <= 127 \/ (c >= 160 /\ c <= 255) \/ Cp1252HighBytes(c) # {}

\* the byte the cp1252/latin-1 remapping gives c, for c with one
RemapByte(c) ==
  IF c > 255 THEN CHOOSE b \in Cp1252HighBytes(c) : TRUE ELSE c

\* c is remapped to a single byte by cp1252 or latin-1
Remapped(c) == HasCp1252(c) \/ c <= 255

\* c takes the last-resort UTF-8 fallback
TookFallback(c) == ~Remapped(c)

\* c is remapped by cp1252/latin-1 to a byte >= 0x80
HighRemapped(c) == Remapped(c) /\ RemapByte(c) >= 128

AllAscii(text) == \A k \in 1..Len(text) : text[k] <= 127

\* the bytes the three-branch chain gives c
ChainBytes(c) ==
  IF HasCp1252(c) THEN <<RemapByte(c)>>
  ELSE IF c <= 255 THEN <<c>>
  ELSE Utf8EncodeChar(c).val

RECURSIVE ChainAll(_)
\* the per-character results concatenated in input order
ChainAll(text) ==
  IF text = <<>> THEN <<>> ELSE ChainBytes(Head(text)) \o ChainAll(Tail(text))

\* the bytes of a run of remapped code points
RunBytes(run) == [k \in 1..Len(run) |-> RemapByte(run[k])]

\* text holds no mojibake pattern: no run of two or more remapped code
\* points whose bytes are one multi-byte UTF-8 sequence
Clean(text) ==
  \A a \in 1..Len(text) : \A b \in (a + 1)..Len(text) :
    ~ /\ \A k \in a..b : Remapped(text[k])
      /\ Utf8Decode(RunBytes(SubSeq(text, a, b))).ok
      /\ Len(Utf8Decode(RunBytes(SubSeq(text, a, b))).val) = 1

RECURSIVE KeepFallback(_, _)
\* text repaired run by run: every code point that took the fallback kept
\* as it is, every run of remapped code points between two of them decoded
\* on its own
KeepFallback(text, run) ==
  IF text = <<>> THEN Utf8Decode(RunBytes(run))
  ELSE IF TookFallback(Head(text))
       THEN LET d == Utf8Decode(RunBytes(run))
                rest == KeepFallback(Tail(text), <<>>)
            IN IF d.ok /\ rest.ok THEN Ok(d.val \o <<Head(text)>> \o rest.val) ELSE Err
       ELSE KeepFallback(Tail(text), Append(run, Head(text)))

Kinds(log, kinds) == SelectSeq(log, LAMBDA e : e[1] \in kinds)

PathsOf(log) == [k \in 1..Len(log) |-> log[k][2]]

\* every original text T paired with its mojibake M
Mojibake == {<<T, Corrupt(T)>> : T \in Texts(OrigChars, MaxOrig)}

(***************************************************************************)
(* Properties.                                                             *)
(***************************************************************************)
\* C1: round trip.  For every original text T, if the text the reversal is
\* applied to is T's UTF-8 bytes decoded as cp1252 (latin-1 for the five
\* undefined bytes), the UTF-8 decode of line 48 succeeds, fixed_text is T
\* and a completed write leaves exactly T's UTF-8 bytes in the file.
RoundTrip ==
  DecodeTried =>
    \A p \in Mojibake :
      LET T == p[1] IN
      mojibake_text = p[2] =>
        /\ ~Unchanged
        /\ reversed_bytes = Utf8Encode(T)
        /\ fixed_text = T
        /\ pc = "return_54" => fs[file_path].bytes = Utf8Encode(T)

\* a two-character original with a 3-byte and a 2-byte character, repaired
RoundTripWitness ==
  /\ pc = "return_54"
  /\ mojibake_text = Corrupt(<<8217, 193>>)
  /\ Len(mojibake_text) = 5
  /\ fixed_text = <<8217, 193>>
  /\ fs[file_path].bytes # before

\* C2: no partial write.  When a call has returned, True or False, the file
\* holds its original bytes or the complete reconstructed text.
NoPartialWrite ==
  Returned =>
    \/ fs[file_path].bytes = before
    \/ /\ Utf8Decode(reversed_bytes).ok
       /\ fs[file_path].bytes = Utf8Encode(Utf8Decode(reversed_bytes).val)

\* C3: detection-negative.  Whenever the remapped buffer is not valid
\* UTF-8 the call ends at line 60: the file was not opened for writing and
\* holds what it held before the call, no exception was raised, and the
\* call returns True.
DetectionNegative ==
  (DecodeTried /\ ~Utf8Decode(reversed_bytes).ok) =>
    /\ pc = "return_60"
    /\ fs[file_path].bytes = before
    /\ error = NoError
    /\ ret = TRUE
    /\ console[Len(console)] = <<"Info", file_path>>

\* the buffer is "A" and a lone continuation byte 0x80
DetectionNegativeWitness ==
  /\ pc = "return_60"
  /\ reversed_bytes = <<65, 128>>
  /\ before # <<>>
  /\ ret

\* C4 as stated: clean text, pure ASCII included, yields Unchanged.
CleanYieldsUnchanged ==
  (DecodeTried /\ Clean(mojibake_text)) => Unchanged

\* C4 amended: for clean text the outcome is Unchanged exactly when some
\* code point is remapped by cp1252/latin-1 to a byte >= 0x80, and then the
\* file is not rewritten; for clean text without one (ASCII and code
\* points without a cp1252/latin-1 mapping) the decode succeeds and the
\* outcome is Repaired with the text itself.
CleanOutcome ==
  (DecodeTried /\ Clean(mojibake_text)) =>
    IF \E k \in 1..Len(mojibake_text) : HighRemapped(mojibake_text[k])
    THEN Unchanged /\ fs[file_path].bytes = before
    ELSE Repaired /\ fixed_text = mojibake_text

\* clean text with a lone high byte between ASCII and an unmapped code point
CleanOutcomeWitness ==
  /\ Unchanged
  /\ Clean(mojibake_text)
  /\ mojibake_text = <<65, 8364, 20013>>

\* C5: ASCII boundary.  For text of code points U+0000..U+007F the buffer
\* equals the text's own bytes, the decode succeeds, fixed_text equals the
\* text, and a completed write puts the text's bytes in the file.
AsciiBoundary ==
  (DecodeTried /\ AllAscii(mojibake_text)) =>
    /\ reversed_bytes = Utf8Encode(mojibake_text)
    /\ Repaired
    /\ fixed_text = mojibake_text
    /\ pc = "return_54" => fs[file_path].bytes = Utf8Encode(mojibake_text)

\* "A\nA" read, written back
AsciiBoundaryWitness ==
  /\ pc = "return_54"
  /\ mojibake_text = <<65, 10, 65>>
  /\ fixed_text = <<65, 10, 65>>

\* C6: exit status.  At exit the status is non-zero exactly when
\* fail_count > 0; fail_count counts the calls that returned failure, and
\* every call that ended Unchanged (line 59) is counted in success_count.
ExitStatusRule ==
  /\ pc = "done" => (exit_status # 0 <=> fail_count > 0)
  /\ fail_count = Len(Kinds(console, {"Failed"}))
  /\ success_count = Len(Kinds(console, {"Fixed"}))
  /\ Len(Kinds(console, {"Error"})) = fail_count + (IF pc = "return_66" THEN 1 ELSE 0)
  /\ \A k \in 1..Len(console) :
       console[k][1] = "Info" =>
         IF k < Len(console) THEN console[k + 1] = <<"Fixed", console[k][2]>>
         ELSE Unchanged /\ ret = TRUE

\* a batch with an Unchanged file and a failed file, exited non-zero
ExitStatusWitness ==
  /\ pc = "done"
  /\ exit_status = 1
  /\ success_count >= 1
  /\ Len(Kinds(console, {"Info"})) >= 1

\* every entry got its verdict, once, in list order
BatchComplete ==
  /\ idx = Len(files_to_process) + 1
  /\ success_count + fail_count = Len(files_to_process)
  /\ PathsOf(Kinds(console, {"Fixed", "Failed"})) = files_to_process

\* C7: the batch continues after a failure.  An exception raised while one
\* file is processed is caught at line 62, reported, and turned into the
\* result False; main reaches its end, and then every entry of
\* files_to_process has been processed exactly once, in list order, and
\* success_count + fail_count is the number of entries.
BatchContinues ==
  /\ <>(pc = "done")
  /\ [](pc = "done" => BatchComplete)
  /\ [][pc = "except" =>
          /\ pc' = "return_66"
          /\ ret' = FALSE
          /\ console' = Append(console, <<"Error", file_path>>)]_vars

\* a failed file followed by a file that was still processed
BatchContinuesWitness ==
  /\ pc = "done"
  /\ Len(files_to_process) >= 2
  /\ \E k \in 1..(Len(console) - 1) :
       /\ console[k][1] = "Failed"
       /\ \E m \in (k + 1)..Len(console) : console[m][1] = "Fixed"

\* C8: per-character fallback chain.  The buffer is the concatenation, in
\* input order, of one result per code point processed so far: the cp1252
\* byte if the code point has one, else the latin-1 byte if it is at most
\* U+00FF, else its UTF-8 encoding; no code point raises.
FallbackChain ==
  /\ reversed_bytes = ChainAll(SubSeq(mojibake_text, 1, i - 1))
  /\ error.type # "UnicodeEncodeError"
  /\ DecodeTried => i = Len(mojibake_text) + 1

\* U+00E2, U+0081 (latin-1 only) and U+2019 (cp1252 only) remapped to
\* E2 81 92
FallbackChainWitness ==
  /\ DecodeTried
  /\ mojibake_text = <<226, 129, 8217>>
  /\ reversed_bytes = <<226, 129, 146>>

\* C9: fallback characters are preserved.  When the outcome is Repaired,
\* the repaired text is the input with every code point that took the
\* UTF-8 fallback left in place and every run of remapped code points
\* between them decoded on its own.
FallbackPreserved ==
  Repaired => KeepFallback(mojibake_text, <<>>) = Ok(fixed_text)

\* U+4E2D between a repaired pair and an ASCII letter
FallbackPreservedWitness ==
  /\ pc = "return_54"
  /\ mojibake_text = <<195, 169, 20013>>
  /\ fixed_text = <<233, 20013>>

\* C10: when the outcome is Repaired the repaired text is never longer
\* than the input; it equals the input exactly when no code point was
\* remapped to a byte >= 0x80, and is strictly shorter otherwise.
RepairedLength ==
  Repaired =>
    /\ Len(fixed_text) <= Len(mojibake_text)
    /\ fixed_text = mojibake_text <=>
         ~\E k \in 1..Len(mojibake_text) : HighRemapped(mojibake_text[k])
    /\ (\E k \in 1..Len(mojibake_text) : HighRemapped(mojibake_text[k])) =>
         Len(fixed_text) < Len(mojibake_text)

\* a repaired text shorter than its input, with a fallback code point kept
RepairedLengthWitness ==
  /\ pc = "return_54"
  /\ Len(fixed_text) = 2
  /\ Len(mojibake_text) = 3
  /\ \E k \in 1..3 : TookFallback(mojibake_text[k])

====
